---- MODULE Spec2Model ----
(***************************************************************************)
(* A model of notion-bible's delivery program (src/notion.js): the payload *)
(* batcher of processBook, the ordering of processBible, the schema check  *)
(* at load time (src/schemas.js) and the throttled, retried delivery.      *)
(*                                                                         *)
(* Two specifications share the batcher's operators:                       *)
(*   SpecBatch  applies processBible's book ordering and processBook's     *)
(*              request building to bounded Bible inputs;                  *)
(*   Spec       runs the whole program on small persisted artifacts, one   *)
(*              action per callback of the event loop.                     *)
(***************************************************************************)
EXTENDS Integers, Sequences, FiniteSets, TLC

VARIABLES
    bBible,      \* SpecBatch: the validated Bible handed to processBible
    bDone,       \* SpecBatch: how many books of [ot, nt] have been processed
    bOut,        \* SpecBatch: per processed book, the requestsData it built
    esvFile,     \* Spec: the JSON value of ./data/esv/versesData.json
    nasbFile,    \* Spec: the JSON value of ./data/nasb/versesData.json
    esvBible,    \* Spec: the module's const esvBible, Undefined until parsed
    nasbBible,   \* Spec: the module's const nasbBible, Undefined until parsed
    pc,          \* Spec: where the process is (module top level, running, ended)
    chain,       \* Spec: what the promise chain of processBible/processBook awaits
    bookPos,     \* Spec: how many books' processBook calls have been made
    chunks,      \* Spec: requestsDataChunks of the current book
    groupIdx,    \* Spec: the chunk of the current book last started (1-based)
    reqs,        \* Spec: one record per keepTrying closure created so far
    failures,    \* Spec: how many API calls have failed so far
    failedLog,   \* Spec: the titles logged as 'FAILED REQUEST:'
    elapsed,     \* Spec: the <<book, chunk>> whose pacing delay has elapsed
    xVersion,    \* SpecExtract: index in Versions of the downloadBible call made last
    xPhase,      \* SpecExtract: what that downloadBible call awaits
    urlData,     \* SpecExtract: its otUrlData and ntUrlData, Undefined before
    fetches,     \* SpecExtract: the getChapterVerses calls in flight or still awaited
    files,       \* SpecExtract: the paths written under ./data
    errors       \* SpecExtract: what console.error has logged, in order

bvars == <<bBible, bDone, bOut>>

dvars == <<esvFile, nasbFile, esvBible, nasbBible, pc, chain, bookPos, chunks,
           groupIdx, reqs, failures, failedLog, elapsed>>

xvars == <<xVersion, xPhase, urlData, fetches, files, errors>>

vars == <<bvars, dvars, xvars>>

Undefined == [undefined |-> TRUE]

(***************************************************************************)
(* Program constants (src/notion.js:29-49).                                *)
(***************************************************************************)
GROUPED_BLOCK_SIZE == 1000
GROUP_RICH_TEXT_SIZE == 100
REQUESTS_PER_CHUNK == 3
MAX_RETRY_COUNT == 10
MAX_CONTENT_CHARS == 2000

notionColors ==
    <<"gray", "brown", "orange", "yellow", "green", "blue", "purple", "pink", "red">>

DatabaseId == "ESV_ID"

Min(a, b) == IF a < b THEN a ELSE b

(***************************************************************************)
(* splitArrayIntoChunks (src/notion.js:256-262).  Slice is Array.slice     *)
(* with a 0-based start and an exclusive end clamped to the length.  The   *)
(* loop pushes one slice for each i = 0, chunkSize, 2*chunkSize, ... below *)
(* arr.length: LoopStarts(arr, chunkSize)[c] is the c-th such i.           *)
(***************************************************************************)
\* Slice taking the element at end as well.
SliceInclusive(arr, start, end) == SubSeq(arr, start + 1, Min(end + 1, Len(arr)))

Slice(arr, start, end) == SubSeq(arr, start + 1, Min(end, Len(arr)))

LoopStarts(arr, chunkSize) ==
    [c \in 1..((Len(arr) + chunkSize - 1) \div chunkSize) |-> (c - 1) * chunkSize]

\* splitArrayIntoChunks with every chunk one element short of chunkSize.
splitArrayIntoShortChunks(arr, chunkSize) ==
    LET starts == LoopStarts(arr, chunkSize - 1)
    IN  [c \in 1..Len(starts) |-> Slice(arr, starts[c], starts[c] + chunkSize - 1)]

splitArrayIntoChunks(arr, chunkSize) ==
    LET starts == LoopStarts(arr, chunkSize)
    IN  [c \in 1..Len(starts) |-> Slice(arr, starts[c], starts[c] + chunkSize)]

(***************************************************************************)
(* The rich text objects of one chapter (src/notion.js:92-111).  A span    *)
(* without annotations is not bold: annotations.bold is FALSE for it.      *)
(* The reduce pushes two objects per verse, so object k belongs to verse   *)
(* (k+1) \div 2: the label when k is odd, the text when k is even.         *)
(***************************************************************************)
VerseLabel(verse) == ToString(verse) \o " "

\* VerseContent with the space after the last verse too.
VerseContentSpaced(text, isLastVerse) == text \o " "

VerseContent(text, isLastVerse) == IF isLastVerse THEN text ELSE text \o " "

RichText(content, bold) ==
    [type |-> "text", text |-> [content |-> content], annotations |-> [bold |-> bold]]

totalRichTextObjects(verses) ==
    [k \in 1..(2 * Len(verses)) |->
        LET verseIdx == (k + 1) \div 2
            isLastVerse == verseIdx = Len(verses)
        IN  IF k % 2 = 1
            THEN RichText(VerseLabel(verses[verseIdx].verse), TRUE)
            ELSE RichText(VerseContent(verses[verseIdx].text, isLastVerse), FALSE)]

(***************************************************************************)
(* The blocks of one chapter (src/notion.js:117-132).                      *)
(***************************************************************************)
Block(richTextObjects) ==
    [object |-> "block", type |-> "paragraph",
     paragraph |-> [rich_text |-> richTextObjects]]

totalBlocks(verses) ==
    LET groupedRichTextObjects ==
            splitArrayIntoChunks(totalRichTextObjects(verses), GROUP_RICH_TEXT_SIZE)
    IN  [g \in 1..Len(groupedRichTextObjects) |-> Block(groupedRichTextObjects[g])]

(***************************************************************************)
(* One request (src/notion.js:145-181).  idx is the chapter's 0-based      *)
(* index; bookIdx is the 1-based index processBible passes.                *)
(***************************************************************************)
BookColor(bookIdx) == notionColors[(bookIdx % Len(notionColors)) + 1]

TestamentColor(testament) == IF testament = "OT" THEN "purple" ELSE "blue"

CreateRequest(title, idx, bookName, bookIdx, testament, databaseId, children) ==
    [parent |-> [database_id |-> databaseId],
     properties |->
        [Name |-> title,
         Chapter |-> idx + 1,
         Book |-> [name |-> bookName, color |-> BookColor(bookIdx)],
         BookIndex |-> bookIdx,
         Testament |-> [name |-> testament, color |-> TestamentColor(testament)]],
     children |-> children]

ChapterRequests(chapter, idx, bookName, bookIdx, testament, databaseId) ==
    LET groupedBlocks == splitArrayIntoChunks(totalBlocks(chapter.verses), GROUPED_BLOCK_SIZE)
    IN  [g \in 1..Len(groupedBlocks) |->
            CreateRequest(chapter.title, idx, bookName, bookIdx, testament,
                          databaseId, groupedBlocks[g])]

(***************************************************************************)
(* requestsData of processBook (src/notion.js:87-185): the reduce over the *)
(* chapters, idx running from 0.                                           *)
(***************************************************************************)
RECURSIVE RequestsLoop(_, _, _, _, _, _)
RequestsLoop(book, bookIdx, testament, databaseId, idx, acc) ==
    IF idx < Len(book.chapters)
    THEN RequestsLoop(book, bookIdx, testament, databaseId, idx + 1,
            acc \o ChapterRequests(book.chapters[idx + 1], idx, book.bookName,
                                   bookIdx, testament, databaseId))
    ELSE acc

requestsData(book, bookIdx, testament, databaseId) ==
    RequestsLoop(book, bookIdx, testament, databaseId, 0, <<>>)

(***************************************************************************)
(* processBible's ordering (src/notion.js:55-82): the testaments [ot, nt]  *)
(* in turn, each testament's books in turn.  bookIdx is found by name      *)
(* (findIndex returns the first book of the testament with that name, as a *)
(* 0-based index) and is offset by the length of ot for an nt book.        *)
(***************************************************************************)
TestamentOf(bible, testamentIdx) == IF testamentIdx = 0 THEN bible.ot ELSE bible.nt

FindIndex(testament, bookName) ==
    LET hits == {i \in 1..Len(testament) : testament[i].bookName = bookName}
    IN  IF hits = {} THEN -1
        ELSE (CHOOSE i \in hits : \A j \in hits : i <= j) - 1

BookIdx(bible, testamentIdx, book) ==
    FindIndex(TestamentOf(bible, testamentIdx), book.bookName)
        + (IF testamentIdx # 0 THEN Len(bible.ot) ELSE 0)

TestamentTag(testamentIdx) == IF testamentIdx # 0 THEN "NT" ELSE "OT"

BookRequests(bible, testamentIdx, book, databaseId) ==
    requestsData(book, BookIdx(bible, testamentIdx, book) + 1,
                 TestamentTag(testamentIdx), databaseId)

\* The books in processing order, each with the index of its testament.
BookOrder(bible) ==
    [p \in 1..(Len(bible.ot) + Len(bible.nt)) |->
        IF p <= Len(bible.ot)
        THEN [testamentIdx |-> 0, book |-> bible.ot[p]]
        ELSE [testamentIdx |-> 1, book |-> bible.nt[p - Len(bible.ot)]]]

(***************************************************************************)
(* Bounds of the inputs.                                                   *)
(***************************************************************************)
MaxOtBooks == 10
MaxNtBooks == 2
MaxChapters == 2
MaxExtraVerses == 1

(***************************************************************************)
(* Bounded Bible inputs, all of them values VersesDataSchema accepts:      *)
(* verse is a number and bookName, title and text are strings, with no     *)
(* other constraint (src/schemas.js:3-24).                                 *)
(***************************************************************************)
RECURSIVE Rep(_)
Rep(n) ==
    IF n <= 0 THEN ""
    ELSE IF n % 2 = 0 THEN LET h == Rep(n \div 2) IN h \o h
    ELSE Rep(n - 1) \o "a"

\* A verse text of exactly len characters (at least the digits of i) ending in i.
TextOf(i, len) == Rep(len - Len(ToString(i))) \o ToString(i)

VersesOf(n, len) == [i \in 1..n |-> [verse |-> i, text |-> TextOf(i, len)]]

ChapterOf(bookName, n, nVerses, len) ==
    [title |-> bookName \o " " \o ToString(n), verses |-> VersesOf(nVerses, len)]

\* A book whose chapter c has counts[c] verses, every text len characters long.
BookOf(bookName, counts, len) ==
    [bookName |-> bookName,
     chapters |-> [c \in 1..Len(counts) |-> ChapterOf(bookName, c, counts[c], len)]]

BibleOf(ot, nt) == [version |-> "ESV", ot |-> ot, nt |-> nt]

\* Bibles of nOt + nNt one-verse books; with dup, the second book of each
\* testament carries the name of the first.
NameOf(prefix, i, dup) == prefix \o ToString(IF dup /\ i = 2 THEN 1 ELSE i)

OrderingBibles ==
    {BibleOf([i \in 1..nOt |-> BookOf(NameOf("Book", i, dup), <<1>>, 2)],
             [i \in 1..nNt |-> BookOf(NameOf("Letter", i, dup), <<1>>, 2)]) :
        <<nOt, nNt, dup>> \in (0..MaxOtBooks) \X (0..MaxNtBooks) \X BOOLEAN}

\* Verse counts around the multiples of one block's worth of verses.
VersesPerBlock == GROUP_RICH_TEXT_SIZE \div 2

VerseCounts ==
    {n \in 0..(2 * VersesPerBlock + MaxExtraVerses) :
        \/ n <= 3
        \/ \E m \in 1..2 : \E d \in (0 - MaxExtraVerses)..MaxExtraVerses :
              n = m * VersesPerBlock + d}

\* Books of one chapter with each of these counts, and books of up to
\* MaxChapters chapters that are empty, of one verse or of two Blocks.
CountSeqs == UNION {[1..n -> {0, 1, VersesPerBlock + 1}] : n \in 0..MaxChapters}

ChunkingBibles ==
    {BibleOf(<<BookOf("Psalms", counts, 2)>>, <<>>) :
        counts \in CountSeqs \cup {<<n>> : n \in VerseCounts}}

\* Verse texts around the documented limit on text.content.
LongTextBibles ==
    {BibleOf(<<BookOf("Esther", <<n>>, len)>>, <<>>) :
        <<n, len>> \in (1..2) \X
            ((MAX_CONTENT_CHARS - 1 - MaxExtraVerses)..(MAX_CONTENT_CHARS + MaxExtraVerses))}

\* The chapter of three verses.
GenesisBible ==
    BibleOf(<<[bookName |-> "Genesis",
               chapters |-> <<[title |-> "Genesis 1",
                               verses |-> <<[verse |-> 1, text |-> "In the beginning"],
                                            [verse |-> 2, text |-> "the earth"],
                                            [verse |-> 3, text |-> "was void"]>>]>>]>>,
            <<>>)

\* A chapter whose verse numbers are not the verses' positions, one of its
\* texts empty.
NumberingBible ==
    BibleOf(<<>>,
            <<[bookName |-> "Mark",
               chapters |-> <<[title |-> "Mark 16",
                               verses |-> <<[verse |-> 12, text |-> "After these things"],
                                            [verse |-> 0, text |-> ""],
                                            [verse |-> -1, text |-> "Amen"]>>]>>]>>)

\* Chapters that fill one request's Blocks exactly, and overflow it, in the
\* book after a book of one verse.
VersesPerRequest == GROUPED_BLOCK_SIZE * VersesPerBlock

HugeBibles ==
    {BibleOf(<<BookOf("Jude", <<1>>, 2)>>, <<BookOf("Acts", <<VersesPerRequest + d>>, 1)>>) :
        d \in {0, MaxExtraVerses}}

BatchInputs ==
    OrderingBibles \cup ChunkingBibles \cup LongTextBibles
        \cup {GenesisBible, NumberingBible} \cup HugeBibles

(***************************************************************************)
(* SpecBatch: processBible's chain over the books of [ot, nt], each step   *)
(* the requestsData processBook builds for the next book (its delivery is  *)
(* the subject of Spec).                                                   *)
(***************************************************************************)
ExtractIdle ==
    /\ xVersion = 0
    /\ xPhase = "idle"
    /\ urlData = Undefined
    /\ fetches = <<>>
    /\ files = {}
    /\ errors = <<>>

DeliveryIdle ==
    /\ esvFile = Undefined
    /\ nasbFile = Undefined
    /\ esvBible = Undefined
    /\ nasbBible = Undefined
    /\ pc = "idle"
    /\ chain = "idle"
    /\ bookPos = 0
    /\ chunks = <<>>
    /\ groupIdx = 0
    /\ reqs = <<>>
    /\ failures = 0
    /\ failedLog = {}
    /\ elapsed = {}

BatchInit ==
    /\ bBible \in BatchInputs
    /\ bDone = 0
    /\ bOut = <<>>
    /\ DeliveryIdle
    /\ ExtractIdle

BuildOtBook ==
    /\ bDone < Len(bBible.ot)
    /\ bOut' = Append(bOut, BookRequests(bBible, 0, bBible.ot[bDone + 1], DatabaseId))
    /\ bDone' = bDone + 1
    /\ UNCHANGED <<bBible, dvars, xvars>>

BuildNtBook ==
    /\ bDone >= Len(bBible.ot)
    /\ bDone < Len(bBible.ot) + Len(bBible.nt)
    /\ bOut' = Append(bOut, BookRequests(bBible, 1, bBible.nt[bDone - Len(bBible.ot) + 1],
                                         DatabaseId))
    /\ bDone' = bDone + 1
    /\ UNCHANGED <<bBible, dvars, xvars>>

BatchNext == BuildOtBook \/ BuildNtBook

SpecBatch == BatchInit /\ [][BatchNext]_vars

(***************************************************************************)
(* What SpecBatch has emitted, read back per book and per chapter.         *)
(***************************************************************************)
RECURSIVE Concat(_, _, _)
Concat(seqs, lo, hi) ==
    IF lo > hi THEN <<>>
    ELSE IF lo = hi THEN seqs[lo]
    ELSE LET mid == (lo + hi) \div 2
         IN  Concat(seqs, lo, mid) \o Concat(seqs, mid + 1, hi)

Flatten(seqs) == Concat(seqs, 1, Len(seqs))

EmittedBooks == 1..Len(bOut)

InputBook(p) == BookOrder(bBible)[p].book

\* The requests emitted for chapter c (1-based) of the p-th book, in order.
EmittedChapterRequests(p, c) ==
    LET OfChapter(r) == r.properties.Chapter = c
    IN  SelectSeq(bOut[p], OfChapter)

\* Their blocks, and the spans of those blocks, in emission order.
EmittedChapterBlocks(p, c) ==
    LET emitted == EmittedChapterRequests(p, c)
    IN  Flatten([r \in 1..Len(emitted) |-> emitted[r].children])

EmittedChapterSpans(p, c) ==
    LET blocks == EmittedChapterBlocks(p, c)
    IN  Flatten([b \in 1..Len(blocks) |-> blocks[b].paragraph.rich_text])

EmittedChapters ==
    UNION {{<<p, c>> : c \in 1..Len(InputBook(p).chapters)} : p \in EmittedBooks}

\* C3: every emitted Block holds at most 100 spans, every Block of a chapter
\* but its last holds exactly 100, and every emitted CreateRequest holds at
\* most 1000 Blocks.
C3_BlockAndRequestCaps ==
    /\ \A p \in EmittedBooks : \A r \in 1..Len(bOut[p]) :
          /\ Len(bOut[p][r].children) <= 1000
          /\ \A b \in 1..Len(bOut[p][r].children) :
                Len(bOut[p][r].children[b].paragraph.rich_text) <= 100
    /\ \A ch \in EmittedChapters :
          LET blocks == EmittedChapterBlocks(ch[1], ch[2])
          IN  \A b \in 1..(Len(blocks) - 1) : Len(blocks[b].paragraph.rich_text) = 100

\* A chapter was emitted as a Block of 100 spans followed by a last Block
\* of fewer, in one CreateRequest.
C3_Witness ==
    \E ch \in EmittedChapters :
        LET blocks == EmittedChapterBlocks(ch[1], ch[2])
        IN  /\ Len(blocks) = 2
            /\ Len(blocks[1].paragraph.rich_text) = 100
            /\ Len(blocks[2].paragraph.rich_text) < 100
            /\ Len(EmittedChapterRequests(ch[1], ch[2])) = 1

\* C4: no emitted CreateRequest contains a rich-text span whose content is
\* longer than 2000 characters.
C4_SpanContentWithinLimit ==
    \A p \in EmittedBooks : \A r \in 1..Len(bOut[p]) :
        \A b \in 1..Len(bOut[p][r].children) :
            LET spans == bOut[p][r].children[b].paragraph.rich_text
            IN  \A k \in 1..Len(spans) : Len(spans[k].text.content) <= 2000

\* C5: every emitted Block is made of whole verses (a bold label followed by
\* its body, so no verse is split across two Blocks), the chapter's Blocks
\* are exactly those its spans need (no Block is split or repeated across
\* CreateRequests), and the spans of the chapter's Blocks across its
\* CreateRequests, in emission order, are the chapter's flat span sequence.
C5_PartitionPreservesSpans ==
    \A ch \in EmittedChapters :
        LET verses == InputBook(ch[1]).chapters[ch[2]].verses
            blocks == EmittedChapterBlocks(ch[1], ch[2])
        IN  /\ \A b \in 1..Len(blocks) :
                  LET spans == blocks[b].paragraph.rich_text
                  IN  /\ Len(spans) % 2 = 0
                      /\ \A k \in 1..Len(spans) :
                            spans[k].annotations.bold = (k % 2 = 1)
            /\ Len(blocks) = (2 * Len(verses) + 99) \div 100
            /\ EmittedChapterSpans(ch[1], ch[2]) = totalRichTextObjects(verses)

\* A chapter of 101 verses was emitted as three Blocks.
C5_Witness ==
    \E ch \in EmittedChapters :
        /\ Len(InputBook(ch[1]).chapters[ch[2]].verses) = 101
        /\ Len(EmittedChapterBlocks(ch[1], ch[2])) = 3

\* C6: a chapter of v verses expands to exactly 2*v spans in verse order: for
\* the i-th verse a bold span "<verse number> " followed by a non-bold span
\* holding the verse text with one trailing space, the last verse of the
\* chapter without it; the chapter of three verses gives one CreateRequest
\* with one Block of six spans.
C6_SpanExpansion ==
    /\ \A ch \in EmittedChapters :
          LET verses == InputBook(ch[1]).chapters[ch[2]].verses
              spans == EmittedChapterSpans(ch[1], ch[2])
          IN  /\ Len(spans) = 2 * Len(verses)
              /\ \A i \in 1..Len(verses) :
                    /\ spans[2 * i - 1].annotations.bold
                    /\ spans[2 * i - 1].text.content = ToString(verses[i].verse) \o " "
                    /\ ~spans[2 * i].annotations.bold
                    /\ spans[2 * i].text.content =
                          IF i < Len(verses) THEN verses[i].text \o " " ELSE verses[i].text
    /\ (bBible = GenesisBible /\ bDone = 1) =>
          /\ Len(bOut[1]) = 1
          /\ Len(bOut[1][1].children) = 1
          /\ LET spans == bOut[1][1].children[1].paragraph.rich_text
             IN  /\ [k \in 1..Len(spans) |-> spans[k].text.content] =
                       <<"1 ", "In the beginning ", "2 ", "the earth ", "3 ", "was void">>
                 /\ [k \in 1..Len(spans) |-> spans[k].annotations.bold] =
                       <<TRUE, FALSE, TRUE, FALSE, TRUE, FALSE>>

\* The chapter of three verses has been expanded.
C6_Witness ==
    /\ bBible = GenesisBible
    /\ bDone = 1
    /\ Len(EmittedChapterSpans(1, 1)) = 6

\* C7: every CreateRequest emitted for the book at 1-based position p of
\* 'all ot books, then all nt books' carries Book Index p, the color
\* palette[p mod 9] and the testament tag of the book's testament.
C7_IndexColorTestament ==
    \A p \in EmittedBooks : \A r \in 1..Len(bOut[p]) :
        LET props == bOut[p][r].properties
        IN  /\ props.BookIndex = p
            /\ props.Book.color = notionColors[(p % 9) + 1]
            /\ props.Testament.name = (IF p <= Len(bBible.ot) THEN "OT" ELSE "NT")

(***************************************************************************)
(* JSON values as readJsonSync returns them, each tagged with its type.    *)
(***************************************************************************)
JStr(x) == [t |-> "string", v |-> x]
JNum(x) == [t |-> "number", v |-> x]
JArr(x) == [t |-> "array", v |-> x]
JObj(x) == [t |-> "object", v |-> x]

(***************************************************************************)
(* The schemas (src/schemas.js:3-24): string() and number() accept a value *)
(* of that type, array(s) an array whose every item s accepts, object({..})*)
(* an object holding every listed key with a value its schema accepts.     *)
(***************************************************************************)
IsString(j) == j.t = "string"
IsNumber(j) == j.t = "number"
HasKeys(j, keys) == j.t = "object" /\ keys \subseteq DOMAIN j.v
IsArray(j) == j.t = "array"

VerseSchema(j) ==
    /\ HasKeys(j, {"verse", "text"})
    /\ IsNumber(j.v.verse)
    /\ IsString(j.v.text)

ChapterSchema(j) ==
    /\ HasKeys(j, {"title", "verses"})
    /\ IsString(j.v.title)
    /\ IsArray(j.v.verses)
    /\ \A i \in 1..Len(j.v.verses.v) : VerseSchema(j.v.verses.v[i])

BookSchema(j) ==
    /\ HasKeys(j, {"bookName", "chapters"})
    /\ IsString(j.v.bookName)
    /\ IsArray(j.v.chapters)
    /\ \A i \in 1..Len(j.v.chapters.v) : ChapterSchema(j.v.chapters.v[i])

TestamentSchema(j) ==
    /\ IsArray(j)
    /\ \A i \in 1..Len(j.v) : BookSchema(j.v[i])

VersesDataSchema(j) ==
    /\ HasKeys(j, {"version", "ot", "nt"})
    /\ IsString(j.v.version)
    /\ TestamentSchema(j.v.ot)
    /\ TestamentSchema(j.v.nt)

\* The output of a successful parse: the listed keys of each object.
ParsedVerse(j) == [verse |-> j.v.verse.v, text |-> j.v.text.v]

ParsedChapter(j) ==
    [title |-> j.v.title.v,
     verses |-> [i \in 1..Len(j.v.verses.v) |-> ParsedVerse(j.v.verses.v[i])]]

ParsedBook(j) ==
    [bookName |-> j.v.bookName.v,
     chapters |-> [i \in 1..Len(j.v.chapters.v) |-> ParsedChapter(j.v.chapters.v[i])]]

ParsedTestament(j) == [i \in 1..Len(j.v) |-> ParsedBook(j.v[i])]

ParsedBible(j) ==
    [version |-> j.v.version.v,
     ot |-> ParsedTestament(j.v.ot),
     nt |-> ParsedTestament(j.v.nt)]

(***************************************************************************)
(* The persisted artifacts of the runs of Spec.                            *)
(***************************************************************************)
JsonVerse(x) == JObj([verse |-> JNum(x.verse), text |-> JStr(x.text)])

JsonChapter(x) ==
    JObj([title |-> JStr(x.title),
          verses |-> JArr([i \in 1..Len(x.verses) |-> JsonVerse(x.verses[i])])])

JsonBook(x) ==
    JObj([bookName |-> JStr(x.bookName),
          chapters |-> JArr([i \in 1..Len(x.chapters) |-> JsonChapter(x.chapters[i])])])

JsonTestament(x) == JArr([i \in 1..Len(x) |-> JsonBook(x[i])])

JsonBible(x) ==
    JObj([version |-> JStr(x.version), ot |-> JsonTestament(x.ot), nt |-> JsonTestament(x.nt)])

\* Books of one-verse chapters.
SmallBook(bookName, nChapters) == BookOf(bookName, [c \in 1..nChapters |-> 1], 2)

ValidFiles ==
    {JsonBible(b) : b \in
        {BibleOf(<<SmallBook("Ruth", REQUESTS_PER_CHUNK + 1)>>, <<>>),
         BibleOf(<<SmallBook("Joel", 1)>>, <<SmallBook("Titus", 2)>>),
         BibleOf(<<SmallBook("Obadiah", 0), BookOf("Haggai", <<0, 1>>, 2)>>,
                 <<SmallBook("Jude", 1)>>),
         BibleOf(<<>>, <<>>)}}

InvalidFiles ==
    {JStr("ESV"),
     JObj([ot |-> JsonTestament(<<SmallBook("Joel", 1)>>), nt |-> JsonTestament(<<>>)]),
     JObj([version |-> JStr("ESV"), ot |-> JsonTestament(<<SmallBook("Joel", 1)>>),
           nt |-> JStr("")]),
     JObj([version |-> JStr("ESV"), nt |-> JsonTestament(<<>>),
           ot |-> JArr(<<JObj([bookName |-> JStr("Joel"),
                               chapters |-> JArr(<<JObj([title |-> JStr("Joel 1"),
                                   verses |-> JArr(<<JObj([verse |-> JStr("1"),
                                                           text |-> JStr("The word")])>>)])>>)])>>)])}

(***************************************************************************)
(* Bound of the runs of Spec: how many API calls fail in one run.          *)
(***************************************************************************)
MaxFailures == 11

(***************************************************************************)
(* Spec: the process of src/notion.js.  The module's top level parses the  *)
(* two artifacts and calls processBible (lines 33-52); from then on every  *)
(* step is a callback of the event loop.  A callback queued on a settled   *)
(* promise (a microtask) runs before any timer or API response is handled: *)
(* MicrotaskReady.  Timers and API responses come in any order: the        *)
(* latency of an API call is not bounded, so no clock is modelled.         *)
(***************************************************************************)
Init ==
    /\ bBible = Undefined
    /\ bDone = 0
    /\ bOut = <<>>
    /\ esvFile \in ValidFiles \cup InvalidFiles
    /\ nasbFile \in {JsonBible(BibleOf(<<>>, <<>>))} \cup InvalidFiles
    /\ esvBible = Undefined
    /\ nasbBible = Undefined
    /\ ExtractIdle
    /\ pc = "parseEsv"
    /\ chain = "idle"
    /\ bookPos = 0
    /\ chunks = <<>>
    /\ groupIdx = 0
    /\ reqs = <<>>
    /\ failures = 0
    /\ failedLog = {}
    /\ elapsed = {}

\* const esvBible = VersesDataSchema.parse(readJsonSync(...)): parse throws
\* on a value the schema rejects, which ends the process (src/notion.js:33-35).
ParseEsv ==
    /\ pc = "parseEsv"
    /\ IF VersesDataSchema(esvFile)
       THEN esvBible' = ParsedBible(esvFile) /\ pc' = "parseNasb"
       ELSE esvBible' = esvBible /\ pc' = "crashed"
    /\ UNCHANGED <<xvars, bvars, esvFile, nasbFile, nasbBible, chain, bookPos, chunks,
                   groupIdx, reqs, failures, failedLog, elapsed>>

\* ParseNasb with the outcome of the parse ignored.
ParseNasbUnchecked ==
    /\ pc = "parseNasb"
    /\ nasbBible' = IF VersesDataSchema(nasbFile) THEN ParsedBible(nasbFile) ELSE nasbBible
    /\ pc' = "kickOff"
    /\ UNCHANGED <<xvars, bvars, esvFile, nasbFile, esvBible, chain, bookPos, chunks,
                   groupIdx, reqs, failures, failedLog, elapsed>>

\* const nasbBible = VersesDataSchema.parse(readJsonSync(...)) (src/notion.js:36-38).
ParseNasb ==
    /\ pc = "parseNasb"
    /\ IF VersesDataSchema(nasbFile)
       THEN nasbBible' = ParsedBible(nasbFile) /\ pc' = "kickOff"
       ELSE nasbBible' = nasbBible /\ pc' = "crashed"
    /\ UNCHANGED <<xvars, bvars, esvFile, nasbFile, esvBible, chain, bookPos, chunks,
                   groupIdx, reqs, failures, failedLog, elapsed>>

NumBooks == Len(esvBible.ot) + Len(esvBible.nt)

\* What the chain awaits once bookPos books have completed: the callback of
\* the next book (src/notion.js:64), or nothing.
AfterBook(done) == IF done < NumBooks THEN "bookReady" ELSE "finished"

\* processBible(esvBible, process.env.ESV_ID) (src/notion.js:52, 55-82).
KickOff ==
    /\ pc = "kickOff"
    /\ pc' = "running"
    /\ chain' = AfterBook(0)
    /\ UNCHANGED <<xvars, bvars, esvFile, nasbFile, esvBible, nasbBible, bookPos, chunks,
                   groupIdx, reqs, failures, failedLog, elapsed>>

MicrotaskReady == chain \in {"bookReady", "groupReady", "logReady"}

\* The callback of the next book (src/notion.js:64-72) and the synchronous
\* body of processBook (84-249): requestsData, its chunks of 3, and the
\* promise chain over the chunks, which is settled already when there are none.
StartBook ==
    /\ pc = "running"
    /\ chain = "bookReady"
    /\ LET next == BookOrder(esvBible)[bookPos + 1]
           requestsDataChunks ==
               splitArrayIntoChunks(
                   BookRequests(esvBible, next.testamentIdx, next.book, DatabaseId),
                   REQUESTS_PER_CHUNK)
       IN  /\ chunks' = requestsDataChunks
           /\ bookPos' = bookPos + 1
           /\ groupIdx' = 0
           /\ chain' = IF Len(requestsDataChunks) > 0 THEN "groupReady"
                       ELSE AfterBook(bookPos + 1)
    /\ UNCHANGED <<xvars, bvars, esvFile, nasbFile, esvBible, nasbBible, pc, reqs,
                   failures, failedLog, elapsed>>

\* A keepTrying closure right after its first notion.pages.create(data)
\* (src/notion.js:202-211, 228).  attempts counts the API calls made for the
\* request; pausedAfter and immediateAfter record, by retryCount, the retries
\* issued after the 2000 ms wait and those issued at once.
NewRequest(book, group, data) ==
    [book |-> book, group |-> group, data |-> data, status |-> "inflight",
     retryCount |-> 0, attempts |-> 1, pausedAfter |-> {}, immediateAfter |-> {}]

\* The function of a chunk (src/notion.js:201-238): every request of the
\* chunk is submitted and the pacing timer is started.  The promise it
\* returns is Promise.all([chunkOfRequests, wait(getWaitTime())]), whose
\* first element is the array chunkOfRequests: an array is not a promise and
\* counts as fulfilled, so the promise awaits the timer alone.
StartGroup ==
    /\ pc = "running"
    /\ chain = "groupReady"
    /\ LET g == groupIdx + 1
           chunkOfRequestsData == chunks[g]
       IN  /\ groupIdx' = g
           /\ reqs' = reqs \o [i \in 1..Len(chunkOfRequestsData) |->
                                  NewRequest(bookPos, g, chunkOfRequestsData[i])]
    /\ chain' = "pacing"
    /\ UNCHANGED <<xvars, bvars, esvFile, nasbFile, esvBible, nasbBible, pc, bookPos,
                   chunks, failures, failedLog, elapsed>>

\* The pacing timer of the current chunk fires (src/notion.js:237, 264-272):
\* the promise of the chunk's function is fulfilled.
PacingElapsed ==
    /\ pc = "running"
    /\ ~MicrotaskReady
    /\ chain = "pacing"
    /\ elapsed' = elapsed \cup {<<bookPos, groupIdx>>}
    /\ chain' = "logReady"
    /\ UNCHANGED <<xvars, bvars, esvFile, nasbFile, esvBible, nasbBible, pc, bookPos,
                   chunks, groupIdx, reqs, failures, failedLog>>

\* '${idx + 1} of ${arr.length} completed' (src/notion.js:241-247): the next
\* chunk's function is next, or processBook's promise is fulfilled.
GroupCompleted ==
    /\ pc = "running"
    /\ chain = "logReady"
    /\ chain' = IF groupIdx < Len(chunks) THEN "groupReady" ELSE AfterBook(bookPos)
    /\ UNCHANGED <<xvars, bvars, esvFile, nasbFile, esvBible, nasbBible, pc, bookPos,
                   chunks, groupIdx, reqs, failures, failedLog, elapsed>>

\* notion.pages.create(data) is fulfilled: keepTrying's promise is too.
CreateSucceeds(i) ==
    /\ pc = "running"
    /\ ~MicrotaskReady
    /\ reqs[i].status = "inflight"
    /\ reqs' = [reqs EXCEPT ![i].status = "succeeded"]
    /\ UNCHANGED <<xvars, bvars, esvFile, nasbFile, esvBible, nasbBible, pc, chain, bookPos,
                   chunks, groupIdx, failures, failedLog, elapsed>>

\* The tests of the catch handler (src/notion.js:214, 218).
\* IsFatalLate is IsFatal one failure late.
IsFatalLate(retryCount) == retryCount > MAX_RETRY_COUNT

IsFatal(retryCount) == retryCount = MAX_RETRY_COUNT

Ceil2(n) == (n + 1) \div 2

WaitsBeforeRetry(retryCount) == Ceil2(retryCount) # 0

\* notion.pages.create(data) is rejected: the catch handler
\* (src/notion.js:211-225) counts the failure, then ends the process, or
\* waits RETRY_WAIT_TIME (2000 ms) before keepTrying, or calls keepTrying at once.
CreateFails(i) ==
    /\ pc = "running"
    /\ ~MicrotaskReady
    /\ reqs[i].status = "inflight"
    /\ failures < MaxFailures
    /\ failures' = failures + 1
    /\ LET retryCount == reqs[i].retryCount + 1
       IN  IF IsFatal(retryCount)
           THEN /\ failedLog' = failedLog \cup {reqs[i].data.properties.Name}
                /\ pc' = "exited"
                /\ reqs' = [reqs EXCEPT ![i].retryCount = retryCount,
                                        ![i].status = "fatal"]
           ELSE IF WaitsBeforeRetry(retryCount)
           THEN /\ reqs' = [reqs EXCEPT ![i].retryCount = retryCount,
                                        ![i].status = "waiting",
                                        ![i].pausedAfter = @ \cup {retryCount}]
                /\ UNCHANGED <<failedLog, pc>>
           ELSE /\ reqs' = [reqs EXCEPT ![i].retryCount = retryCount,
                                        ![i].attempts = @ + 1,
                                        ![i].immediateAfter = @ \cup {retryCount}]
                /\ UNCHANGED <<failedLog, pc>>
    /\ UNCHANGED <<xvars, bvars, esvFile, nasbFile, esvBible, nasbBible, chain, bookPos,
                   chunks, groupIdx, elapsed>>

\* RetryTimerFiresGroup is RetryTimerFires retrying the chunk instead of the
\* request: every request of the group that is not in flight is submitted again.
RetryTimerFiresGroup(i) ==
    /\ pc = "running"
    /\ ~MicrotaskReady
    /\ reqs[i].status = "waiting"
    /\ reqs' = [j \in 1..Len(reqs) |->
                  IF /\ reqs[j].book = reqs[i].book
                     /\ reqs[j].group = reqs[i].group
                     /\ reqs[j].status # "inflight"
                  THEN [reqs[j] EXCEPT !.status = "inflight", !.attempts = @ + 1]
                  ELSE reqs[j]]
    /\ UNCHANGED <<xvars, bvars, esvFile, nasbFile, esvBible, nasbBible, pc, chain,
                   bookPos, chunks, groupIdx, failures, failedLog, elapsed>>

\* wait(RETRY_WAIT_TIME).then(keepTrying) (src/notion.js:220): the timer
\* fires and the request is submitted again.
RetryTimerFires(i) ==
    /\ pc = "running"
    /\ ~MicrotaskReady
    /\ reqs[i].status = "waiting"
    /\ reqs' = [reqs EXCEPT ![i].status = "inflight", ![i].attempts = @ + 1]
    /\ UNCHANGED <<xvars, bvars, esvFile, nasbFile, esvBible, nasbBible, pc, chain,
                   bookPos, chunks, groupIdx, failures, failedLog, elapsed>>

Next ==
    \/ ParseEsv
    \/ ParseNasb
    \/ KickOff
    \/ StartBook
    \/ StartGroup
    \/ PacingElapsed
    \/ GroupCompleted
    \/ \E i \in 1..Len(reqs) : CreateSucceeds(i)
    \/ \E i \in 1..Len(reqs) : CreateFails(i)
    \/ \E i \in 1..Len(reqs) : RetryTimerFires(i)

Spec == Init /\ [][Next]_vars

(***************************************************************************)
(* Claims about the delivery, under Spec.                                  *)
(***************************************************************************)
Requests == 1..Len(reqs)

Settled(r) == r.status \in {"succeeded", "fatal"}

\* C1: within a book, a request of chunk N+1 is submitted only once every
\* request of chunk N has settled and chunk N's pacing delay has elapsed, so
\* requests of two different chunks of a book are never unsettled together.
C1_GroupsStrictlySequential ==
    \A i, j \in Requests :
        (reqs[i].book = reqs[j].book /\ reqs[i].group < reqs[j].group) =>
            /\ Settled(reqs[i])
            /\ <<reqs[i].book, reqs[i].group>> \in elapsed

\* C2: a request's API call is attempted at most 10 times; once its 10th
\* attempt has failed its title is logged and the process has exited, and
\* after the exit no API call is made for any request.
C2_TenAttemptsThenExit ==
    /\ [](\A i \in Requests :
            /\ reqs[i].attempts <= 10
            /\ reqs[i].retryCount <= reqs[i].attempts
            /\ (reqs[i].retryCount = 10) =>
                  /\ reqs[i].attempts = 10
                  /\ reqs[i].status = "fatal"
                  /\ reqs[i].data.properties.Name \in failedLog
                  /\ pc = "exited")
    /\ [][pc = "exited" => (pc' = "exited" /\ reqs' = reqs)]_vars

\* A request went fatal on its 10th attempt and the process exited with
\* another request of its chunk waiting to retry and a chunk not yet started.
C2_Witness ==
    /\ pc = "exited"
    /\ \E i, j \in Requests :
          /\ reqs[i].status = "fatal"
          /\ reqs[i].attempts = 10
          /\ reqs[j].status = "waiting"
          /\ reqs[j].group = reqs[i].group
    /\ groupIdx < Len(chunks)

\* C8: when a loaded artifact fails schema validation the program ends at
\* load time with no request built and no API call made, and nothing is
\* built or submitted before both artifacts have validated.
C8_InvalidArtifactAbortsAtLoad ==
    /\ (esvFile \in InvalidFiles \/ nasbFile \in InvalidFiles) =>
          /\ reqs = <<>>
          /\ chunks = <<>>
          /\ bookPos = 0
          /\ chain = "idle"
          /\ pc \in {"parseEsv", "parseNasb", "crashed"}
    /\ (reqs # <<>> \/ chunks # <<>> \/ bookPos > 0) =>
          (esvBible # Undefined /\ nasbBible # Undefined)

\* The second artifact failed validation after a first one holding books
\* had validated, and the process ended.
C8_Witness ==
    /\ pc = "crashed"
    /\ esvBible # Undefined
    /\ nasbFile \in InvalidFiles
    /\ Len(esvBible.ot) > 0

\* C9: of the retries of one request, only the one after the 5th failed
\* attempt follows the 2000 ms pause; every other retry is issued at once.
C9_SinglePauseAtMidpoint ==
    \A i \in Requests :
        LET retried == (1..reqs[i].retryCount) \ {MAX_RETRY_COUNT}
        IN  /\ reqs[i].pausedAfter = retried \cap {5}
            /\ reqs[i].immediateAfter = retried \ {5}

\* C10: book N+1's processing begins, and its requests are submitted, only
\* once every request of book N has completed.
C10_BooksStrictlySequential ==
    \A i \in Requests : reqs[i].book < bookPos => reqs[i].status = "succeeded"

(***************************************************************************)
(* FairSpec: Spec with the progress the event loop gives and the claim's   *)
(* premise.  A queued callback runs and an armed timer fires (the steps of *)
(* the top level, the chain and the timers are weakly fair), and every API *)
(* call settles: a request in flight is eventually fulfilled or rejected.  *)
(***************************************************************************)
MaxLiveRequests == 4

\* Bound of the runs of FairSpec: how many API calls fail in one run.  It
\* reaches MAX_RETRY_COUNT, so a run of FairSpec can still end in the exit.
MaxLiveFailures == 10

\* A failed API call of a run of FairSpec.
LiveCreateFails(i) == failures < MaxLiveFailures /\ CreateFails(i)

\* One step of the top level or of the promise chain.  The program counter
\* and the chain's position enable at most one of them at a time.
EventLoopStep ==
    \/ ParseEsv
    \/ ParseNasb
    \/ KickOff
    \/ StartBook
    \/ StartGroup
    \/ PacingElapsed
    \/ GroupCompleted

\* The next thing that happens to request i: its call in flight settles, or
\* its retry timer fires.  A request is in one of the two positions at most.
RequestStep(i) ==
    /\ i \in 1..Len(reqs)
    /\ (CreateSucceeds(i) \/ LiveCreateFails(i) \/ RetryTimerFires(i))

Fairness ==
    /\ WF_vars(EventLoopStep)
    /\ \A i \in 1..MaxLiveRequests : WF_vars(RequestStep(i))

LiveNext ==
    \/ ParseEsv
    \/ ParseNasb
    \/ KickOff
    \/ StartBook
    \/ StartGroup
    \/ PacingElapsed
    \/ GroupCompleted
    \/ \E i \in 1..Len(reqs) : CreateSucceeds(i)
    \/ \E i \in 1..Len(reqs) : LiveCreateFails(i)
    \/ \E i \in 1..Len(reqs) : RetryTimerFires(i)

FairSpec == Init /\ [][LiveNext]_vars /\ Fairness

\* Every request processBook builds for the books of the Bible, in order.
AllRequestsOf(bible) ==
    LET order == BookOrder(bible)
    IN  Flatten([p \in 1..Len(order) |->
                    BookRequests(bible, order[p].testamentIdx, order[p].book, DatabaseId)])

\* Every CreateRequest of every book has been submitted, once, and succeeded.
AllSucceeded ==
    /\ pc = "running"
    /\ chain = "finished"
    /\ [i \in Requests |-> reqs[i].data] = AllRequestsOf(esvBible)
    /\ \A i \in Requests : reqs[i].status = "succeeded"

\* C11: in a run where every API call settles and no request goes fatal,
\* every CreateRequest of every book is submitted and ends succeeded, and it
\* is created once: each submission after a request's first follows one
\* failed attempt of that same request (attempts never exceeds its own
\* failures plus one, whatever happens to the other requests), and a
\* succeeded request is never submitted again.
C11_EverySucceedsOnce ==
    /\ [](pc \notin {"crashed", "exited"}) => <>[]AllSucceeded
    /\ [](\A i \in Requests :
            reqs[i].attempts =
                reqs[i].retryCount + (IF reqs[i].status \in {"inflight", "succeeded"}
                                      THEN 1 ELSE 0))
    /\ [][\A i \in Requests :
            /\ reqs'[i].data = reqs[i].data
            /\ reqs[i].status = "succeeded" => reqs'[i] = reqs[i]
            /\ reqs'[i].attempts # reqs[i].attempts =>
                  /\ reqs'[i].attempts = reqs[i].attempts + 1
                  /\ reqs[i].status # "succeeded"
                  /\ reqs'[i].retryCount = reqs[i].attempts]_vars

\* Every request of a book of two chunks has succeeded, one of them after
\* failed attempts and a retry.
C11_Witness ==
    /\ AllSucceeded
    /\ Len(reqs) > 3
    /\ \E i, j \in Requests :
          /\ reqs[i].retryCount > 1
          /\ reqs[j].retryCount = 0
          /\ reqs[i].group = reqs[j].group

(***************************************************************************)
(* The extraction program (src/main.js).  The module's top level calls     *)
(* downloadBible for four versions, awaiting each call before the next.    *)
(* A thrown error or a rejected promise inside the try block is modelled   *)
(* as a result record: Throw(e) for the error, Return(v) for the value.    *)
(***************************************************************************)
Versions == <<"esv", "leb", "nasb", "amp">>

\* The book count downloadBible insists on (src/main.js:45).
ExpectedBooks == 66

Throw(e) == [threw |-> TRUE, error |-> e, value |-> Undefined]

Return(v) == [threw |-> FALSE, error |-> "", value |-> v]

\* getBookName, then getChapterUrls, of one .ot-book / .nt-book section.  A
\* section is the trimmed text of its .book-name, the number its
\* .num-chapters declares and the number of links in its .chapters.
getBookUrls(section) ==
    IF Len(section.bookName) = 0
    THEN Throw("Error with getting book name text")
    ELSE IF section.numChapters # section.links
    THEN Throw("Mismatch of expected chapters")
    ELSE Return([bookName    |-> section.bookName,
                 chapterUrls |-> [c \in 1..section.links |->
                                     section.bookName \o "/" \o ToString(c)]])

\* sections.map(getBookUrls): the first section that throws ends the map.
getTestamentUrlData(sections) ==
    LET books == [i \in 1..Len(sections) |-> getBookUrls(sections[i])]
        bad   == {i \in 1..Len(sections) : books[i].threw}
    IN  IF bad # {}
        THEN books[CHOOSE i \in bad : \A j \in bad : i <= j]
        ELSE Return([i \in 1..Len(sections) |-> books[i].value])

\* The try block of downloadBible up to the url data (src/main.js:37-51),
\* given what the fetch of the book list page produced.
ExtractUrlData(response) ==
    IF ~response.fetched
    THEN Throw("fetch failed")
    ELSE IF Len(response.ot) + Len(response.nt) # ExpectedBooks
    THEN Throw("books found, expected 66")
    ELSE LET otUrlData == getTestamentUrlData(response.ot)
             ntUrlData == getTestamentUrlData(response.nt)
         IN  IF otUrlData.threw THEN otUrlData
             ELSE IF ntUrlData.threw THEN ntUrlData
             ELSE Return([ot |-> otUrlData.value, nt |-> ntUrlData.value])

\* getChapterVerses (src/main.js:138-172), given what the fetch of the chapter
\* page produced: the data-osis attribute as its first segment and the number
\* its last segment reads as (both empty when the attribute is missing).
getChapterVerses(response, chapter) ==
    IF ~response.fetched
    THEN Throw("fetch failed")
    ELSE IF Len(response.bookAbbreviation) = 0 \/ response.numOfVerses = 0
    THEN Throw("Error with calculating osis data for chapter")
    ELSE Return([i \in 1..response.numOfVerses |->
                    response.bookAbbreviation \o "-" \o ToString(chapter)
                        \o "-" \o ToString(i)])

\* The getChapterVerses calls getTestamentVerses makes, all at once
\* (src/main.js:178-181): one per chapter url of every book of the testament.
getTestamentVerses(version, testament, testamentUrlData) ==
    Flatten([b \in 1..Len(testamentUrlData) |->
                [c \in 1..Len(testamentUrlData[b].chapterUrls) |->
                    [version   |-> version,
                     testament |-> testament,
                     bookName  |-> testamentUrlData[b].bookName,
                     chapter   |-> c,
                     status    |-> "inflight"]]])

UrlDataPath(version) == "./data/" \o Versions[version] \o "/chapterUrlData.json"

VersesDataPath(version) == "./data/" \o Versions[version] \o "/versesData.json"

(***************************************************************************)
(* What the site serves, within bounds.  A good book list page has         *)
(* PageOtBooks Old Testament sections and the rest of the 66 in the New;   *)
(* the first Old Testament book has MaxChapters chapters or none, the     *)
(* first New Testament book one or none, the other books none.             *)
(***************************************************************************)
PageOtBooks == 39

\* n sections; the first has `chapters` chapter links, the last has the flaw.
Sections(prefix, n, chapters, flaw) ==
    [i \in 1..n |->
        [bookName    |-> IF flaw = "name" /\ i = n THEN "" ELSE prefix \o ToString(i),
         numChapters |-> IF i = 1 THEN chapters ELSE 0,
         links       |-> IF flaw = "count" /\ i = n THEN 1
                         ELSE IF i = 1 THEN chapters ELSE 0]]

BookListPage(nOt, otChapters, otFlaw, ntChapters, ntFlaw) ==
    [fetched |-> TRUE,
     ot      |-> Sections("OT", nOt, otChapters, otFlaw),
     nt      |-> Sections("NT", ExpectedBooks - PageOtBooks, ntChapters, ntFlaw)]

BookListResponses ==
    {[fetched |-> FALSE, ot |-> <<>>, nt |-> <<>>]}
    \cup {BookListPage(PageOtBooks, o, "none", n, "none") :
            o \in {0, MaxChapters}, n \in 0..1}
    \cup {BookListPage(PageOtBooks - 1, MaxChapters, "none", 1, "none"),
          BookListPage(PageOtBooks, MaxChapters, "name", 1, "none"),
          BookListPage(PageOtBooks, MaxChapters, "none", 1, "count")}

ChapterResponses ==
    {[fetched |-> FALSE, bookAbbreviation |-> "", numOfVerses |-> 0],
     [fetched |-> TRUE, bookAbbreviation |-> "", numOfVerses |-> 0],
     [fetched |-> TRUE, bookAbbreviation |-> "Gen", numOfVerses |-> 0],
     [fetched |-> TRUE, bookAbbreviation |-> "Gen", numOfVerses |-> 1]}

(***************************************************************************)
(* SpecExtract: one run of src/main.js.  A step is one task of the event   *)
(* loop: a fetch settles and the promise callbacks it makes ready run to   *)
(* the next await of a fetch.                                              *)
(***************************************************************************)
ExtractInit ==
    /\ bBible = Undefined
    /\ bDone = 0
    /\ bOut = <<>>
    /\ DeliveryIdle
    /\ xVersion = 0
    /\ xPhase = "start"
    /\ urlData = Undefined
    /\ fetches = <<>>
    /\ files = {}
    /\ errors = <<>>

\* Where the top level goes when downloadBible(version) has returned
\* (src/main.js:25-28): the next version's call, which starts the fetch of its
\* book list page, or the end of the module.
AfterDownload(version) ==
    IF version < Len(Versions)
    THEN [version |-> version + 1, phase |-> "bookList"]
    ELSE [version |-> version, phase |-> "finished"]

\* AfterFailureAbort is AfterFailure with the try/catch around the four calls
\* instead of inside downloadBible: the first failure ends the module.
AfterFailureAbort(version) == [version |-> version, phase |-> "finished"]

\* catch (e) {console.error(e)} ends downloadBible normally (src/main.js:66-69).
AfterFailure(version) == AfterDownload(version)

\* downloadBible(version) returns: the results its chapter promises settled
\* with are unreachable from then on; the fetches it left in flight go on.
Unawaited(fetchesNow, version) ==
    SelectSeq(fetchesNow, LAMBDA f : f.version # version \/ f.status = "inflight")

\* The catch block of downloadBible, for the version being downloaded.
Caught(fetchesNow, e) ==
    /\ errors' = Append(errors, [version |-> xVersion, error |-> e])
    /\ fetches' = Unawaited(fetchesNow, xVersion)
    /\ xVersion' = AfterFailure(xVersion).version
    /\ xPhase' = AfterFailure(xVersion).phase
    /\ urlData' = Undefined

\* writeVersesData, the last statement of the try block (src/main.js:62-65).
WriteVersesData(fetchesNow, filesNow) ==
    /\ files' = filesNow \cup {VersesDataPath(xVersion)}
    /\ fetches' = Unawaited(fetchesNow, xVersion)
    /\ xVersion' = AfterDownload(xVersion).version
    /\ xPhase' = AfterDownload(xVersion).phase
    /\ urlData' = Undefined
    /\ UNCHANGED errors

\* await getTestamentVerses(ntUrlData) (src/main.js:60).  With no chapter at
\* all its promise is fulfilled without a fetch.
AwaitNtVerses(fetchesNow, filesNow, data) ==
    LET started == getTestamentVerses(xVersion, "nt", data.nt)
    IN  IF started = <<>>
        THEN WriteVersesData(fetchesNow, filesNow)
        ELSE /\ fetches' = fetchesNow \o started
             /\ xPhase' = "nt"
             /\ urlData' = data
             /\ files' = filesNow
             /\ UNCHANGED <<xVersion, errors>>

\* await getTestamentVerses(otUrlData) (src/main.js:58).
AwaitOtVerses(filesNow, data) ==
    LET started == getTestamentVerses(xVersion, "ot", data.ot)
    IN  IF started = <<>>
        THEN AwaitNtVerses(fetches, filesNow, data)
        ELSE /\ fetches' = fetches \o started
             /\ xPhase' = "ot"
             /\ urlData' = data
             /\ files' = filesNow
             /\ UNCHANGED <<xVersion, errors>>

\* await downloadBible(esvUrl, 'esv') (src/main.js:25): the first call.
StartMain ==
    /\ xPhase = "start"
    /\ xVersion' = 1
    /\ xPhase' = "bookList"
    /\ UNCHANGED <<bvars, dvars, urlData, fetches, files, errors>>

\* The fetch of the book list page settles (src/main.js:37-58).
BookListArrives ==
    /\ xPhase = "bookList"
    /\ \E response \in BookListResponses :
          LET r == ExtractUrlData(response)
          IN  IF r.threw
              THEN Caught(fetches, r.error) /\ UNCHANGED files
              ELSE AwaitOtVerses(files \cup {UrlDataPath(xVersion)}, r.value)
    /\ UNCHANGED <<bvars, dvars>>

\* The fetch of a chapter page settles (src/main.js:138-200).  The Promise.all
\* of its testament is rejected by the first chapter that fails and fulfilled
\* when every chapter has its verses; it is awaited only by the downloadBible
\* call that made it, while that call is still at that await.  A chapter that
\* settles after its Promise.all was rejected has its result dropped.
ChapterArrives(i) ==
    /\ fetches[i].status = "inflight"
    /\ \E response \in ChapterResponses :
          LET f       == fetches[i]
              r       == getChapterVerses(response, f.chapter)
              awaited == f.version = xVersion /\ f.testament = xPhase
              settled == [fetches EXCEPT ![i].status =
                             IF ~awaited THEN "dropped"
                             ELSE IF r.threw THEN "failed" ELSE "ok"]
              pending == \E j \in 1..Len(settled) :
                            /\ settled[j].version = f.version
                            /\ settled[j].testament = f.testament
                            /\ settled[j].status # "ok"
          IN  IF ~awaited
              THEN /\ fetches' = Unawaited(settled, f.version)
                   /\ UNCHANGED <<xVersion, xPhase, urlData, files, errors>>
              ELSE IF r.threw
              THEN Caught(settled, r.error) /\ UNCHANGED files
              ELSE IF pending
              THEN /\ fetches' = settled
                   /\ UNCHANGED <<xVersion, xPhase, urlData, files, errors>>
              ELSE IF f.testament = "ot"
              THEN AwaitNtVerses(settled, files, urlData)
              ELSE WriteVersesData(settled, files)
    /\ UNCHANGED <<bvars, dvars>>

ExtractNext ==
    \/ StartMain
    \/ BookListArrives
    \/ \E i \in 1..Len(fetches) : ChapterArrives(i)

SpecExtract == ExtractInit /\ [][ExtractNext]_vars

(***************************************************************************)
(* Claims about the extraction, under SpecExtract.                         *)
(***************************************************************************)
VersionIds == 1..Len(Versions)

Logged(v) == \E k \in 1..Len(errors) : errors[k].version = v

WroteVerses(v) == VersesDataPath(v) \in files

\* downloadBible(v) has returned.
Returned(v) == v < xVersion \/ (v = xVersion /\ xPhase = "finished")

\* downloadBible(v) left a chapter fetch in flight when it returned.
Stray(v) == \E i \in 1..Len(fetches) : fetches[i].version = v /\ Returned(v)

\* C12: the four downloads run one after another (a version is started only
\* when the one before it has returned, having written its verses artifact
\* or logged its error), and a failure in a version aborts only that
\* version: a version with a logged error has returned without a verses
\* artifact and never gets one, a version that returned before all its
\* chapters had arrived has logged its error, the step that logs the error
\* starts the next version's download, and the module ends only after all
\* four were started.
C12_FailureAbortsOnlyThatVersion ==
    /\ [](\A v \in VersionIds :
            /\ Returned(v) => (Logged(v) \/ WroteVerses(v))
            /\ Logged(v) => (Returned(v) /\ ~WroteVerses(v))
            /\ Stray(v) => Logged(v)
            /\ (WroteVerses(v) \/ UrlDataPath(v) \in files) => v <= xVersion
            /\ Cardinality({k \in 1..Len(errors) : errors[k].version = v}) <= 1)
    /\ [](\A i \in 1..Len(fetches) : fetches[i].version <= xVersion)
    /\ [](xPhase = "finished" => xVersion = Len(Versions))
    /\ [][/\ xVersion' \in {xVersion, xVersion + 1}
          /\ Len(errors') > Len(errors) =>
                /\ errors' = Append(errors, errors'[Len(errors')])
                /\ errors'[Len(errors')].version = xVersion
                /\ xVersion < Len(Versions) =>
                      (xVersion' = xVersion + 1 /\ xPhase' = "bookList")]_vars

\* The run has ended: esv wrote its verses, leb failed in a chapter after
\* writing its url data and left a fetch in flight, nasb, started after that,
\* wrote its verses, and amp failed.
C12_Witness ==
    /\ xPhase = "finished"
    /\ WroteVerses(1)
    /\ Logged(2) /\ ~WroteVerses(2) /\ UrlDataPath(2) \in files
    /\ Stray(2)
    /\ WroteVerses(3)
    /\ Logged(4) /\ UrlDataPath(4) \notin files

====
